---- MODULE Spec2Model ----
(***************************************************************************)
(* Model of calc_median_ape, the custom error function of                  *)
(* AMLPF_models_sample_notebook.py (lines 231-248): the median absolute    *)
(* percentage error of a forecast, after removing the positions with a     *)
(* missing value and the positions with a zero actual.                     *)
(*                                                                         *)
(* A float is a pair <<numerator, denominator>> in lowest terms with a     *)
(* denominator >= 0: <<n, d>> with d > 0 is the number n/d, <<1, 0>> and   *)
(* <<-1, 0>> are +inf and -inf, <<0, 0>> is NaN.  The arithmetic is exact: *)
(* the rounding and the overflow of 64-bit floats are not modelled.        *)
(* An element of a caller's sequence is a Python object, a record          *)
(* [kind |-> "int", val |-> n] or the missing marker [kind |-> "nan"].     *)
(***************************************************************************)
EXTENDS Integers, Sequences, FiniteSets, TLC

\* Longest input sequence.
MaxLen == 3
\* Number of times the caller calls the function with the same two objects.
MaxCalls == 2

VARIABLES
    arg_true,   \* the caller's first sequence (actual values)
    arg_pred,   \* the caller's second sequence (predicted values)
    calls,      \* number of calls made so far
    frame       \* how the last call ended and the locals it left, a record:
                \*   outcome         "pending" | "returned" | "raised"
                \*   line            source line at which the call ended
                \*   f_true, f_pred  y_true, y_pred after lines 232-233
                \*   y_true_rm_na, y_pred_rm_na       lines 234-235
                \*   y_true_rm_zero, y_pred_rm_zero   lines 241-242
                \*   ape             line 246
                \*   median_ape      the value returned (NaN otherwise)

vars == <<arg_true, arg_pred, calls, frame>>

----------------------------------------------------------------------------
(* Floats *)

NaN == <<0, 0>>

AbsInt(n) == IF n < 0 THEN -n ELSE n

SignInt(n) == IF n < 0 THEN -1 ELSE IF n = 0 THEN 0 ELSE 1

RECURSIVE GCD(_, _)
GCD(a, b) == IF b = 0 THEN a ELSE GCD(b, a % b)

\* The float n/d (d of any sign, d = 0 gives an infinity or NaN).
Norm(n, d) ==
    IF d = 0 THEN <<SignInt(n), 0>>
    ELSE LET g == GCD(AbsInt(n), AbsInt(d))
         IN  <<(SignInt(d) * n) \div g, AbsInt(d) \div g>>

isnan(x) == x = NaN

FAdd(a, b) ==
    IF a[2] = 0 /\ b[2] = 0 THEN (IF a = b THEN a ELSE NaN)
    ELSE Norm(a[1] * b[2] + b[1] * a[2], a[2] * b[2])

FNeg(a) == <<-a[1], a[2]>>

FSub(a, b) == FAdd(a, FNeg(b))

FDiv(a, b) == Norm(a[1] * b[2], a[2] * b[1])

FAbs(a) == <<AbsInt(a[1]), a[2]>>

FMul(a, b) == Norm(a[1] * b[1], a[2] * b[2])

\* a <= b as floats (false when either is NaN)
FLeq(a, b) == ~isnan(a) /\ ~isnan(b) /\ a[1] * b[2] <= b[1] * a[2]

\* a != 0 as numpy evaluates it (NaN != 0 is True)
FNeZero(a) == a # <<0, 1>>

----------------------------------------------------------------------------
(* Python objects of the caller and their conversion *)

\* The numbers of the inputs: both signs, zero, two magnitudes.
Nums == {-1, 0, 1, 2}

\* The numbers of the inputs of the calls that are compared with calls on
\* rearranged inputs.
SmallNums == {0, 1, 2}

PyNan == [kind |-> "nan", val |-> 0]

PyValues(nums) == {[kind |-> "int", val |-> n] : n \in nums} \cup {PyNan}

PySeqs(nums) == UNION {[1..n -> PyValues(nums)] : n \in 0..MaxLen}

\* np.array(y).astype(float): a new array of floats
AsFloatArray(y) ==
    [i \in 1..Len(y) |-> IF y[i].kind = "nan" THEN NaN ELSE <<y[i].val, 1>>]

----------------------------------------------------------------------------
(* NumPy operations on one-dimensional arrays *)

\* Shapes (m,) and (n,) broadcast when equal or when one of them is 1.
Broadcastable(m, n) == m = n \/ m = 1 \/ n = 1

BroadcastLen(m, n) == IF m = 1 THEN n ELSE m

\* Element i of an array broadcast to a longer shape.
Elem(a, i) == IF Len(a) = 1 THEN a[1] ELSE a[i]

NotNaMaskAnd(t, p) ==
    [i \in 1..BroadcastLen(Len(t), Len(p)) |->
        ~(isnan(Elem(t, i)) /\ isnan(Elem(p, i)))]

\* ~(np.isnan(t) | np.isnan(p))
NotNaMask(t, p) ==
    [i \in 1..BroadcastLen(Len(t), Len(p)) |->
        ~(isnan(Elem(t, i)) \/ isnan(Elem(p, i)))]

NeZeroMaskAll(t) == [i \in 1..Len(t) |-> TRUE]

\* t != 0
NeZeroMask(t) == [i \in 1..Len(t) |-> FNeZero(t[i])]

\* The positions of the True entries of a mask, in increasing order.
Nonzero(mask) ==
    SelectSeq([i \in 1..Len(mask) |-> i], LAMBDA i : mask[i])

\* arr[mask] is accepted when the mask has the length of the array; the
\* shape check of NumPy's index preparation is skipped for a boolean index
\* of length 0, which then selects nothing from an array of any length.
BoolIndexOk(arr, mask) == Len(mask) = Len(arr) \/ Len(mask) = 0

\* arr[mask]: a new array of the elements at the True positions.
BoolIndex(arr, mask) ==
    LET idx == Nonzero(mask) IN [k \in 1..Len(idx) |-> arr[idx[k]]]

RECURSIVE Insert(_, _)
\* x placed in the ordered sequence s, before the first element >= x
Insert(x, s) ==
    IF s = <<>> THEN <<x>>
    ELSE IF FLeq(x, Head(s)) THEN <<x>> \o s
    ELSE <<Head(s)>> \o Insert(x, Tail(s))

SortNone(s) == s

RECURSIVE Sort(_)
\* The ordered array np.median takes its middle from.
Sort(s) == IF s = <<>> THEN <<>> ELSE Insert(Head(s), Sort(Tail(s)))

RECURSIVE Sum(_)
Sum(s) == IF s = <<>> THEN <<0, 1>> ELSE FAdd(Head(s), Sum(Tail(s)))

\* np.mean
Mean(s) == FDiv(Sum(s), <<Len(s), 1>>)

MedianUpper(a) ==
    LET n == Len(a)
        part == Sort(a)
        index == n \div 2
    IN  IF n = 0 \/ \E i \in 1..n : isnan(a[i]) THEN NaN
        ELSE Mean(SubSeq(part, index + 1, index + 1))

\* np.median: NaN for an empty array or a NaN element, else the mean of the middle
\* element (odd count) or of the two middle elements (even count) of the
\* ordered array.
Median(a) ==
    LET n == Len(a)
        part == Sort(a)
        index == n \div 2
    IN  IF n = 0 \/ \E i \in 1..n : isnan(a[i]) THEN NaN
        ELSE IF n % 2 = 1 THEN Mean(SubSeq(part, index + 1, index + 1))
        ELSE Mean(SubSeq(part, index, index + 1))

----------------------------------------------------------------------------
(* calc_median_ape *)

Failed(ln) == [ok |-> FALSE, line |-> ln, t |-> <<>>, p |-> <<>>]

\* Line 236 moved before line 235: the second mask is built from the
\* filtered y_true.
RmNaReordered(t, p) ==
    IF ~Broadcastable(Len(t), Len(p)) THEN Failed(234)
    ELSE LET keep == NotNaMask(t, p)
         IN  IF ~BoolIndexOk(t, keep) THEN Failed(234)
             ELSE LET t2 == BoolIndex(t, keep)
                  IN  IF ~Broadcastable(Len(t2), Len(p)) THEN Failed(235)
                      ELSE LET keep2 == NotNaMask(t2, p)
                           IN  IF ~BoolIndexOk(p, keep2) THEN Failed(235)
                               ELSE [ok |-> TRUE, line |-> 237, t |-> t2,
                                     p |-> BoolIndex(p, keep2)]

\* Lines 234-237: the two arrays without the positions where either value
\* is NaN, or the line that raised.
RmNa(t, p) ==
    IF ~Broadcastable(Len(t), Len(p)) THEN Failed(234)
    ELSE LET keep == NotNaMask(t, p)
         IN  IF ~BoolIndexOk(t, keep) THEN Failed(234)
             ELSE IF ~BoolIndexOk(p, keep) THEN Failed(235)
             ELSE [ok |-> TRUE, line |-> 237,
                   t |-> BoolIndex(t, keep), p |-> BoolIndex(p, keep)]

\* y_pred filtered by its own zeros.
RmZeroOwnMask(t, p) ==
    [ok |-> TRUE, line |-> 242,
     t |-> BoolIndex(t, NeZeroMask(t)), p |-> BoolIndex(p, NeZeroMask(p))]

\* Positions kept only when both values are non-zero.
RmZeroBoth(t, p) ==
    LET keep == [i \in 1..Len(t) |-> FNeZero(t[i]) /\ FNeZero(p[i])]
    IN  [ok |-> TRUE, line |-> 242,
         t |-> BoolIndex(t, keep), p |-> BoolIndex(p, keep)]

\* Lines 241-242: the two arrays without the positions where y_true is 0.
RmZero(t, p) ==
    LET keep == NeZeroMask(t)
    IN  IF ~BoolIndexOk(p, keep) THEN Failed(242)
        ELSE [ok |-> TRUE, line |-> 242,
              t |-> BoolIndex(t, keep), p |-> BoolIndex(p, keep)]

ApeNoAbs(t, p) ==
    [i \in 1..BroadcastLen(Len(t), Len(p)) |->
        FMul(FDiv(FSub(Elem(t, i), Elem(p, i)), Elem(t, i)), <<100, 1>>)]

\* Line 246: np.abs((t - p) / t) * 100
Ape(t, p) ==
    [i \in 1..BroadcastLen(Len(t), Len(p)) |->
        FMul(FAbs(FDiv(FSub(Elem(t, i), Elem(p, i)), Elem(t, i))), <<100, 1>>)]

\* The frame of a call that ended at line ln.
Ended(oc, ln, ft, fp, na, zr, a, ret) ==
    [outcome |-> oc, line |-> ln, f_true |-> ft, f_pred |-> fp,
     y_true_rm_na |-> na.t, y_pred_rm_na |-> na.p,
     y_true_rm_zero |-> zr.t, y_pred_rm_zero |-> zr.p,
     ape |-> a, median_ape |-> ret]

\* The whole call: how it ends, and the value of every local at that point.
calc_median_ape(y_true, y_pred) ==
    LET ft == AsFloatArray(y_true)
        fp == AsFloatArray(y_pred)
        na == RmNa(ft, fp)
    IN  IF ~na.ok
        THEN Ended("raised", na.line, ft, fp, Failed(0), Failed(0), <<>>, NaN)
        ELSE IF Len(na.t) = 0
        THEN Ended("returned", 240, ft, fp, na, Failed(0), <<>>, NaN)
        ELSE LET zr == RmZero(na.t, na.p)
             IN  IF ~zr.ok
                 THEN Ended("raised", zr.line, ft, fp, na, Failed(0), <<>>, NaN)
                 ELSE IF Len(zr.t) = 0
                 THEN Ended("returned", 245, ft, fp, na, zr, <<>>, NaN)
                 ELSE IF ~Broadcastable(Len(zr.t), Len(zr.p))
                 THEN Ended("raised", 246, ft, fp, na, zr, <<>>, NaN)
                 ELSE LET a == Ape(zr.t, zr.p)
                      IN  Ended("returned", 248, ft, fp, na, zr, a, Median(a))

----------------------------------------------------------------------------
(* The caller *)

\* No call made yet.
NoFrame ==
    [outcome |-> "pending", line |-> 231, f_true |-> <<>>, f_pred |-> <<>>,
     y_true_rm_na |-> <<>>, y_pred_rm_na |-> <<>>,
     y_true_rm_zero |-> <<>>, y_pred_rm_zero |-> <<>>,
     ape |-> <<>>, median_ape |-> NaN]

\* Any two sequences, of any two lengths.
Init ==
    /\ arg_true \in PySeqs(Nums)
    /\ arg_pred \in PySeqs(Nums)
    /\ calls = 0
    /\ frame = NoFrame

\* Two sequences of the same length.
InitEqualLen ==
    /\ arg_true \in PySeqs(SmallNums)
    /\ arg_pred \in PySeqs(SmallNums)
    /\ Len(arg_true) = Len(arg_pred)
    /\ calls = 0
    /\ frame = NoFrame

\* Any two sequences for a caller that calls more than once.
InitRepeat ==
    /\ arg_true \in PySeqs(SmallNums)
    /\ arg_pred \in PySeqs(SmallNums)
    /\ calls = 0
    /\ frame = NoFrame

\* A call that filters the caller's first sequence in place.
CallInPlace ==
    /\ frame' = calc_median_ape(arg_true, arg_pred)
    /\ calls' = calls + 1
    /\ arg_true' = SelectSeq(arg_true, LAMBDA v : v.kind = "int")
    /\ UNCHANGED arg_pred

\* One call of calc_median_ape with the caller's two sequences: the
\* function works on new arrays and writes to no object of the caller.
Call ==
    /\ frame' = calc_median_ape(arg_true, arg_pred)
    /\ calls' = calls + 1
    /\ UNCHANGED <<arg_true, arg_pred>>

FirstCall == calls = 0 /\ Call

Repeat == calls >= 1 /\ calls < MaxCalls /\ Call

Next == FirstCall

NextRepeat == FirstCall \/ Repeat

Spec == Init /\ [][Next]_vars

SpecEqualLen == InitEqualLen /\ [][Next]_vars

SpecRepeat == InitRepeat /\ [][NextRepeat]_vars

----------------------------------------------------------------------------
(* Vocabulary of the properties, in terms of the caller's two sequences *)

SameLen == Len(arg_true) = Len(arg_pred)

Called == calls >= 1

Missing(i) == arg_true[i].kind = "nan" \/ arg_pred[i].kind = "nan"

ZeroActual(i) == arg_true[i].kind = "int" /\ arg_true[i].val = 0

ZeroPredicted(i) == arg_pred[i].kind = "int" /\ arg_pred[i].val = 0

\* The positions left by the missing-value rule alone.
NaPos == {i \in 1..Len(arg_true) : ~Missing(i)}

\* The positions of the Filtered Sample Set.
KeptPos == {i \in 1..Len(arg_true) : ~Missing(i) /\ ~ZeroActual(i)}

\* The absolute percentage error of position i, from its two integers.
ErrAt(i) ==
    Norm(100 * AbsInt(arg_true[i].val - arg_pred[i].val),
         AbsInt(arg_true[i].val))

Errors == [i \in 1..Len(arg_true) |-> ErrAt(i)]

Less(a, b) == a[1] * b[2] < b[1] * a[2]

\* x is the k-th smallest element of the sequence e, by rank counting.
KthSmallest(e, k, x) ==
    /\ \E i \in 1..Len(e) : e[i] = x
    /\ Cardinality({j \in 1..Len(e) : Less(e[j], x)}) < k
    /\ k <= Cardinality({j \in 1..Len(e) : ~Less(x, e[j])})

\* m is the statistical median of the non-empty sequence e.
IsMedian(e, m) ==
    LET n == Len(e)
    IN  IF n % 2 = 1 THEN KthSmallest(e, (n + 1) \div 2, m)
        ELSE \E i, j \in 1..n :
                /\ KthSmallest(e, n \div 2, e[i])
                /\ KthSmallest(e, n \div 2 + 1, e[j])
                /\ m = Norm(e[i][1] * e[j][2] + e[j][1] * e[i][2],
                            2 * e[i][2] * e[j][2])

\* The permutations of 1..n.
Perms(n) == {f \in [1..n -> 1..n] : \A i, j \in 1..n : f[i] = f[j] => i = j}

\* The sequence s without its element at position i.
Remove(s, i) == [k \in 1..(Len(s) - 1) |-> IF k < i THEN s[k] ELSE s[k + 1]]

\* The elements of the set of positions S, in increasing order.
Ordered(S) ==
    [k \in 1..Cardinality(S) |->
        CHOOSE i \in S : Cardinality({j \in S : j <= i}) = k]

\* The floats of the caller's sequence y at the positions S, in order.
Pick(y, S) ==
    [k \in 1..Cardinality(S) |->
        LET v == y[Ordered(S)[k]]
        IN  IF v.kind = "nan" THEN NaN ELSE <<v.val, 1>>]

\* How a call ended and what it returned.
Result(f) == <<f.outcome, f.median_ape>>

----------------------------------------------------------------------------
(* Properties *)

\* C1: for equal-length sequences without a missing value and without a
\* zero actual, the call returns the statistical median of the per-position
\* errors abs((actual - predicted) / actual) * 100: the middle element of
\* the ordered errors for an odd count, the mean of the two middle elements
\* for an even count.
C1_StatisticalMedian ==
    (Called /\ SameLen /\ Len(arg_true) >= 1 /\ KeptPos = 1..Len(arg_true)) =>
        /\ frame.outcome = "returned"
        /\ frame.ape = Errors
        /\ IsMedian(Errors, frame.median_ape)

\* An even count with two different errors: the median is strictly between.
C1_Witness ==
    /\ Called /\ SameLen /\ Len(arg_true) = 2 /\ KeptPos = {1, 2}
    /\ Less(ErrAt(2), frame.median_ape)
    /\ Less(frame.median_ape, ErrAt(1))

\* C2: for equal-length sequences the call returns NaN exactly when the
\* Filtered Sample Set is empty, and a number in every other case.
C2_NanIffNothingKept ==
    (Called /\ SameLen) =>
        /\ (frame.outcome = "returned" /\ isnan(frame.median_ape))
               <=> KeptPos = {}
        /\ KeptPos # {} =>
               frame.outcome = "returned" /\ frame.median_ape[2] > 0

\* Every actual is zero and nothing is missing: NaN from line 245.
C2_Witness ==
    /\ Called /\ SameLen /\ Len(arg_true) = 2
    /\ \A i \in 1..2 : ZeroActual(i) /\ ~Missing(i)
    /\ frame.line = 245 /\ isnan(frame.median_ape)

\* C3: for equal-length sequences the call never raises; when nothing is
\* left to evaluate it returns NaN from one of the two early returns.
C3_NeverRaises ==
    SameLen =>
        /\ frame.outcome # "raised"
        /\ Called => frame.outcome = "returned"
        /\ (Called /\ KeptPos = {}) =>
               isnan(frame.median_ape) /\ frame.line \in {240, 245}

\* Every position has a missing value: NaN from line 240.
C3_Witness ==
    /\ Called /\ SameLen /\ Len(arg_true) = 2
    /\ \A i \in 1..2 : Missing(i)
    /\ frame.outcome = "returned" /\ frame.line = 240

\* C4: for sequences of different lengths the call ends in an error.
C4_MismatchRaises ==
    (Called /\ ~SameLen) => frame.outcome = "raised"

\* C5: for equal-length sequences, the first stage keeps exactly the pairs
\* of the positions without a missing value and the second stage exactly
\* the pairs of the positions that also have a non-zero actual, in order,
\* the k-th element of both arrays coming from the same position.
C5_TwoStageFilter ==
    (Called /\ SameLen) =>
        /\ frame.y_true_rm_na = Pick(arg_true, NaPos)
        /\ frame.y_pred_rm_na = Pick(arg_pred, NaPos)
        /\ frame.line = 240 <=> NaPos = {}
        /\ frame.line # 240 =>
               /\ frame.y_true_rm_zero = Pick(arg_true, KeptPos)
               /\ frame.y_pred_rm_zero = Pick(arg_pred, KeptPos)

\* A missing value at position 1, a zero actual at position 2 and a zero
\* prediction at position 3: only the pair of position 3 is kept.
C5_Witness ==
    /\ Called /\ SameLen /\ Len(arg_true) = 3
    /\ Missing(1) /\ ~Missing(2) /\ ZeroActual(2) /\ ZeroPredicted(3)
    /\ KeptPos = {3} /\ frame.line = 248

\* C8: the value returned for equal-length sequences is NaN or a number
\* greater than or equal to zero.
C8_NeverNegative ==
    (Called /\ SameLen /\ frame.outcome = "returned") =>
        \/ isnan(frame.median_ape)
        \/ frame.median_ape[2] > 0 /\ frame.median_ape[1] >= 0

\* A negative actual with a positive prediction, and a position where
\* (actual - predicted) / actual is below zero.
C8_Witness ==
    /\ Called /\ SameLen /\ Len(arg_true) = 2 /\ KeptPos = {1, 2}
    /\ arg_true[1].val < 0 /\ arg_pred[1].val > 0
    /\ (arg_true[2].val - arg_pred[2].val) * arg_true[2].val < 0
    /\ frame.line = 248

\* C10: the zero filter tests the actual only: a position with a non-zero
\* actual and a zero prediction is kept with an error of exactly 100, and
\* the call on the swapped pair (actual 0) keeps nothing.
C10_ZeroPredictionKept ==
    (Called /\ SameLen) =>
        /\ \A i \in KeptPos :
               ZeroPredicted(i) =>
                   LET k == Cardinality({j \in KeptPos : j <= i})
                   IN  /\ frame.line = 248
                       /\ frame.y_pred_rm_zero[k] = <<0, 1>>
                       /\ frame.ape[k] = <<100, 1>>
        /\ (Len(arg_true) = 1 /\ KeptPos = {1} /\ ZeroPredicted(1)) =>
               /\ frame.median_ape = <<100, 1>>
               /\ Result(calc_median_ape(arg_pred, arg_true))
                      = <<"returned", NaN>>

\* A zero prediction at position 2, after a dropped position.
C10_Witness ==
    /\ Called /\ SameLen /\ Len(arg_true) = 3
    /\ ZeroActual(1) /\ ~Missing(1)
    /\ 2 \in KeptPos /\ ZeroPredicted(2) /\ 3 \in KeptPos
    /\ frame.line = 248

\* C6: a pair excluded by the filters does not count: the call without
\* that position ends the same way with the same value, and so does the
\* call with a zero actual replaced by a missing actual.
C6_ExcludedPairsIgnored ==
    Called =>
        \A i \in 1..Len(arg_true) :
            /\ (Missing(i) \/ ZeroActual(i)) =>
                   Result(calc_median_ape(Remove(arg_true, i),
                                          Remove(arg_pred, i)))
                       = Result(frame)
            /\ ZeroActual(i) =>
                   Result(calc_median_ape([arg_true EXCEPT ![i] = PyNan],
                                          arg_pred))
                       = Result(frame)

\* A (0, 0) pair next to two different non-zero errors: counted as a 0%
\* error it would lower the median.
C6_Witness ==
    /\ Called /\ Len(arg_true) = 3
    /\ \E i \in 1..3 : ZeroActual(i) /\ ZeroPredicted(i)
    /\ frame.line = 248 /\ Len(frame.ape) = 2
    /\ Less(<<0, 1>>, frame.ape[1]) /\ Less(frame.ape[1], frame.ape[2])

\* C7: calling with both sequences permuted by the same index permutation
\* ends the same way and returns the same value.
C7_PermutationInvariant ==
    Called =>
        \A f \in Perms(Len(arg_true)) :
            Result(calc_median_ape(
                       [i \in 1..Len(arg_true) |-> arg_true[f[i]]],
                       [i \in 1..Len(arg_pred) |-> arg_pred[f[i]]]))
                = Result(frame)

\* Three different errors, the smallest in the middle position.
C7_Witness ==
    /\ Called /\ frame.line = 248 /\ Len(frame.ape) = 3
    /\ Less(frame.ape[2], frame.ape[1]) /\ Less(frame.ape[1], frame.ape[3])

====
